---- MODULE Spec2Model ----
(***************************************************************************)
(* A model of fredulator's CalculatorState (src/src/main.rs) and of the    *)
(* GTK button handlers that drive it.                                      *)
(*                                                                         *)
(* The calculator computes on f64 values and converts between f64 and      *)
(* text with str::parse::<f64>() and f64::to_string().  Both are modelled  *)
(* bit-exactly for finite values: an f64 is a sign, an odd significand     *)
(* below 2^53 and a binary exponent, arithmetic rounds to nearest, ties to *)
(* even, parsing is correctly rounded, and printing produces the shortest  *)
(* decimal that reads back as the same f64.  Significands do not fit the   *)
(* model checker's 32-bit integers, so natural numbers are kept as         *)
(* little-endian sequences of 15-bit limbs.                                *)
(***************************************************************************)
EXTENDS Integers, Sequences, FiniteSets, TLC

(***************************************************************************)
(* Natural numbers of any size: <<l1, ..., ln>> is the sum of              *)
(* l_i * Base^(i-1), with ln # 0; zero is the empty sequence.              *)
(***************************************************************************)
Base == 2^15

Pow2(n) == 2^n

RECURSIVE BNorm(_)
BNorm(a) ==
  IF a = <<>> THEN <<>>
  ELSE IF a[Len(a)] = 0 THEN BNorm(SubSeq(a, 1, Len(a) - 1))
  ELSE a

BOfInt(n) ==
  IF n = 0 THEN <<>>
  ELSE IF n < Base THEN <<n>>
  ELSE IF n < Base * Base THEN <<n % Base, n \div Base>>
  ELSE <<n % Base, (n \div Base) % Base, n \div (Base * Base)>>

BLimb(a, i) == IF i <= Len(a) THEN a[i] ELSE 0

RECURSIVE BAddC(_, _, _, _)
BAddC(a, b, i, c) ==
  IF i > Len(a) /\ i > Len(b)
  THEN (IF c = 0 THEN <<>> ELSE <<c>>)
  ELSE LET x == BLimb(a, i) + BLimb(b, i) + c
       IN <<x % Base>> \o BAddC(a, b, i + 1, x \div Base)

BAdd(a, b) == BAddC(a, b, 1, 0)

RECURSIVE BSubC(_, _, _, _)
BSubC(a, b, i, c) ==
  IF i > Len(a) THEN <<>>
  ELSE LET x == a[i] - BLimb(b, i) - c
       IN IF x < 0 THEN <<x + Base>> \o BSubC(a, b, i + 1, 1)
          ELSE <<x>> \o BSubC(a, b, i + 1, 0)

\* a - b, for a >= b
BSub(a, b) == BNorm(BSubC(a, b, 1, 0))

RECURSIVE BCmpAt(_, _, _)
BCmpAt(a, b, i) ==
  IF i = 0 THEN 0
  ELSE IF a[i] < b[i] THEN -1
  ELSE IF a[i] > b[i] THEN 1
  ELSE BCmpAt(a, b, i - 1)

\* -1, 0 or 1 as a < b, a = b or a > b
BCmp(a, b) ==
  IF Len(a) < Len(b) THEN -1
  ELSE IF Len(a) > Len(b) THEN 1
  ELSE BCmpAt(a, b, Len(a))

BLess(a, b) == BCmp(a, b) < 0
BLeq(a, b) == BCmp(a, b) <= 0

RECURSIVE BMulSmallC(_, _, _, _)
BMulSmallC(a, k, i, c) ==
  IF i > Len(a) THEN (IF c = 0 THEN <<>> ELSE <<c>>)
  ELSE LET x == a[i] * k + c
       IN <<x % Base>> \o BMulSmallC(a, k, i + 1, x \div Base)

\* a * k, for 0 <= k < Base
BMulSmall(a, k) == IF k = 0 \/ a = <<>> THEN <<>> ELSE BMulSmallC(a, k, 1, 0)

Zeros(n) == [i \in 1..n |-> 0]

RECURSIVE BMulAt(_, _, _)
BMulAt(a, b, i) ==
  IF i > Len(b) THEN <<>>
  ELSE BAdd(IF b[i] = 0 THEN <<>> ELSE Zeros(i - 1) \o BMulSmall(a, b[i]),
            BMulAt(a, b, i + 1))

BMul(a, b) == IF a = <<>> \/ b = <<>> THEN <<>> ELSE BMulAt(a, b, 1)

\* a * 2^n
BShl(a, n) ==
  IF a = <<>> THEN <<>>
  ELSE Zeros(n \div 15) \o BMulSmall(a, Pow2(n % 15))

RECURSIVE BDivSmallAt(_, _, _, _)
BDivSmallAt(a, k, i, r) ==
  IF i = 0 THEN <<>>
  ELSE LET x == r * Base + a[i]
       IN BDivSmallAt(a, k, i - 1, x % k) \o <<x \div k>>

\* floor(a / k), for 0 < k < Base
BDivSmall(a, k) == BNorm(BDivSmallAt(a, k, Len(a), 0))

\* floor(a / 2^n)
BShr(a, n) ==
  IF n \div 15 >= Len(a) THEN <<>>
  ELSE BDivSmall(SubSeq(a, n \div 15 + 1, Len(a)), Pow2(n % 15))

RECURSIVE IntBitLen(_)
IntBitLen(n) == IF n = 0 THEN 0 ELSE 1 + IntBitLen(n \div 2)

\* the number of bits of a: the least n with a < 2^n
BBitLen(a) == IF a = <<>> THEN 0 ELSE 15 * (Len(a) - 1) + IntBitLen(a[Len(a)])

BIsOdd(a) == a # <<>> /\ a[1] % 2 = 1

RECURSIVE IntTrailingZeros(_)
IntTrailingZeros(n) == IF n % 2 = 1 THEN 0 ELSE 1 + IntTrailingZeros(n \div 2)

RECURSIVE BTrailingZeros(_)
\* the number of trailing zero bits of a # 0
BTrailingZeros(a) ==
  IF a[1] = 0 THEN 15 + BTrailingZeros(Tail(a)) ELSE IntTrailingZeros(a[1])

RECURSIVE QDigit(_, _, _, _)
\* the greatest q with b * q <= r among acc .. acc + 2^(bit+1) - 1, found a bit
\* a step from the top; b * acc <= r
QDigit(r, b, bit, acc) ==
  IF bit < 0 THEN acc
  ELSE IF BLeq(BMulSmall(b, acc + Pow2(bit)), r)
  THEN QDigit(r, b, bit - 1, acc + Pow2(bit))
  ELSE QDigit(r, b, bit - 1, acc)

\* the quotient limbs qr[1] with the limb q above them, and the remainder
BPushLimb(qr, q) == <<qr[1] \o <<q>>, qr[2]>>

RECURSIVE BDivModAt(_, _, _)
\* the division of r by b * Base^j and below, the quotient limb at j being q
BDivModStep(r, b, j, q) ==
  BPushLimb(BDivModAt(BSub(r, BMulSmall(Zeros(j) \o b, q)), b, j - 1), q)

\* long division, one quotient limb a step: <<the limbs of floor(r / b),
\* r mod b>>, for r < b * Base^(j+1)
BDivModAt(r, b, j) ==
  IF j < 0 THEN <<(<<>>), r>>
  ELSE BDivModStep(r, b, j, QDigit(r, Zeros(j) \o b, 14, 0))

\* <<the quotient without its leading zero limbs, the remainder>>
BNormQuot(qr) == <<BNorm(qr[1]), qr[2]>>

\* <<floor(a / b), a mod b>>, for b # 0
BDivMod(a, b) ==
  IF BLess(a, b) THEN <<(<<>>), a>>
  ELSE BNormQuot(BDivModAt(a, b, Len(a) - Len(b)))

RECURSIVE BPow10(_)
BPow10(n) ==
  IF n <= 4 THEN <<10^n>>
  ELSE BMul(BPow10(n \div 2), BPow10(n - n \div 2))

(***************************************************************************)
(* f64.  A finite f64 is [neg, m, e], of value (-1)^neg * m * 2^e, with m  *)
(* odd and below 2^53, or m = 0 and e = 0 for the two zeros.  Infinities,  *)
(* NaN and subnormals are outside the model: the values the bounded runs   *)
(* reach stay far from 2^-1022 and 2^1024.                                 *)
(***************************************************************************)
\* (-1)^neg * m * 2^(e+z), for m # 0 a multiple of 2^z
F64Shifted(neg, m, e, z) ==
  [neg |-> neg, m |-> (IF z = 0 THEN m ELSE BShr(m, z)), e |-> e + z]

\* (-1)^neg * m * 2^e, for m < 2^53 * 2^(its trailing zero bits)
F64(neg, m, e) ==
  IF m = <<>> THEN [neg |-> neg, m |-> <<>>, e |-> 0]
  ELSE F64Shifted(neg, m, e, BTrailingZeros(m))

F64Zero == [neg |-> FALSE, m |-> <<>>, e |-> 0]

F64IsZero(x) == x.m = <<>>

\* the f64 of the integer n, |n| < 2^31
F64OfInt(n) == IF n < 0 THEN F64(TRUE, BOfInt(-n), 0) ELSE F64(FALSE, BOfInt(n), 0)

\* floor(log2 |x|), for x # 0
F64Log2(x) == BBitLen(x.m) + x.e - 1

\* The f64 nearest to (-1)^neg * (n / d) * 2^e, ties to the even significand
\* (IEEE 754 roundTiesToEven), for d # 0.
\* q + rem / den is above the midpoint of q and q + 1, or on it with q odd
RoundsUp(q, rem, den, c) == c > 0 \/ (c = 0 /\ BIsOdd(q))

\* q / 2 + (a fraction that is 0 only if q is even and exact) is above the
\* midpoint of half and half + 1, or on it with half odd; half = floor(q / 2)
RoundsUpHalf(q, half, exact) == BIsOdd(q) /\ (~exact \/ BIsOdd(half))

\* q or q + 1
BSucIf(q, up) == IF up THEN BAdd(q, <<1>>) ELSE q

\* the f64 nearest to (-1)^neg * (q + rem / den) * 2^e, for 2^52 <= q < 2^54
\* and rem < den
RoundQuot(neg, q, rem, den, e) ==
  IF BBitLen(q) = 54
  THEN F64(neg, BSucIf(BShr(q, 1), RoundsUpHalf(q, BShr(q, 1), rem = <<>>)), e + 1)
  ELSE F64(neg, BSucIf(q, RoundsUp(q, rem, den, BCmp(BShl(rem, 1), den))), e)

\* the f64 nearest to (-1)^neg * (qr[1] + qr[2] / den) * 2^e
RoundDivMod(neg, qr, den, e) == RoundQuot(neg, qr[1], qr[2], den, e)

\* the f64 nearest to (-1)^neg * (num / den) * 2^e, for
\* 2^52 <= num / den < 2^54
RoundDiv(neg, num, den, e) == RoundDivMod(neg, BDivMod(num, den), den, e)

\* the f64 nearest to (-1)^neg * (n / d) * 2^e, n / d brought between 2^52
\* and 2^54 by the factor 2^-t
RoundScaled(neg, n, d, e, t) ==
  RoundDiv(neg, IF t < 0 THEN BShl(n, -t) ELSE n, IF t > 0 THEN BShl(d, t) ELSE d,
           e + t)

RoundRat(neg, n, d, e) ==
  IF n = <<>> THEN [neg |-> neg, m |-> <<>>, e |-> 0]
  ELSE IF d = <<1>> /\ BBitLen(n) <= 53 THEN F64(neg, n, e)
  ELSE RoundScaled(neg, n, d, e, BBitLen(n) - BBitLen(d) - 53)

F64Neg(x) == [x EXCEPT !.neg = ~x.neg]

F64Abs(x) == [x EXCEPT !.neg = FALSE]

MinInt(i, j) == IF i < j THEN i ELSE j

\* the sign of (-1)^xneg * a + (-1)^yneg * b, a sum of 0 from opposite
\* signs being +0
SumNeg(xneg, a, yneg, b) ==
  IF xneg = yneg THEN xneg
  ELSE IF a = b THEN FALSE
  ELSE IF BLess(a, b) THEN yneg
  ELSE xneg

\* | (-1)^xneg * a + (-1)^yneg * b |
SumAbs(xneg, a, yneg, b) ==
  IF xneg = yneg THEN BAdd(a, b)
  ELSE IF BLess(a, b) THEN BSub(b, a)
  ELSE BSub(a, b)

\* the f64 nearest to ((-1)^xneg * a + (-1)^yneg * b) * 2^e
F64Sum(xneg, a, yneg, b, e) ==
  RoundRat(SumNeg(xneg, a, yneg, b), SumAbs(xneg, a, yneg, b), <<1>>, e)

\* x + y with both significands brought to the exponent e
F64AddAt(x, y, e) == F64Sum(x.neg, BShl(x.m, x.e - e), y.neg, BShl(y.m, y.e - e), e)

F64Add(x, y) ==
  IF F64IsZero(x) /\ F64IsZero(y) THEN [x EXCEPT !.neg = x.neg /\ y.neg]
  ELSE IF F64IsZero(x) THEN y
  ELSE IF F64IsZero(y) THEN x
  ELSE F64AddAt(x, y, MinInt(x.e, y.e))

F64Sub(x, y) == F64Add(x, F64Neg(y))

F64Mul(x, y) == RoundRat(x.neg # y.neg, BMul(x.m, y.m), <<1>>, x.e + y.e)

\* x / y, for y # 0
F64Div(x, y) == RoundRat(x.neg # y.neg, x.m, y.m, x.e - y.e)

\* x < y
\* |x| < |y|, the significands brought to the exponent e
F64AbsLessAt(x, y, e) == BLess(BShl(x.m, x.e - e), BShl(y.m, y.e - e))

F64Less(x, y) ==
  IF F64IsZero(x) /\ F64IsZero(y) THEN FALSE
  ELSE IF x.neg /\ ~y.neg THEN TRUE
  ELSE IF ~x.neg /\ y.neg THEN FALSE
  ELSE IF x.neg THEN F64AbsLessAt(y, x, MinInt(x.e, y.e))
  ELSE F64AbsLessAt(x, y, MinInt(x.e, y.e))

\* f64::EPSILON, 2^-52
EPSILON == [neg |-> FALSE, m |-> <<1>>, e |-> -52]

(***************************************************************************)
(* Text.  A String is a sequence of one-character strings.                 *)
(***************************************************************************)
DigitChars == <<"0", "1", "2", "3", "4", "5", "6", "7", "8", "9">>

IsDigit(c) == \E i \in 1..10 : DigitChars[i] = c

DigitVal(c) == (CHOOSE i \in 1..10 : DigitChars[i] = c) - 1

\* s.contains(c)
Contains(s, c) == \E i \in 1..Len(s) : s[i] = c

\* the number of c in s
Count(s, c) == Cardinality({i \in 1..Len(s) : s[i] = c})

RECURSIVE BOfDigits(_)
\* the natural number the decimal digits s spell
BOfDigits(s) ==
  IF Len(s) = 0 THEN <<>>
  ELSE IF Len(s) = 1 THEN BOfInt(DigitVal(s[1]))
  ELSE LET h == Len(s) \div 2
       IN BAdd(BMul(BOfDigits(SubSeq(s, 1, h)), BPow10(Len(s) - h)),
               BOfDigits(SubSeq(s, h + 1, Len(s))))

\* s without its "."
SelectDigits(s) == SelectSeq(s, IsDigit)

\* the position of the first "." of s, or Len(s) + 1
RECURSIVE DotAt(_, _)
DotAt(s, i) == IF i > Len(s) \/ s[i] = "." THEN i ELSE DotAt(s, i + 1)

\* str::parse::<f64>() on the characters a buffer can hold (digits, ".", and
\* a sign): an optional sign, then digits with at most one ".", at least one
\* digit in all.  Ok(v) is [ok |-> TRUE, val |-> v], v the f64 nearest to
\* the decimal; Err is [ok |-> FALSE].
parse(s) ==
  LET signed == s # <<>> /\ s[1] \in {"-", "+"}
      body == IF signed THEN Tail(s) ELSE s
      wellFormed == /\ \A i \in 1..Len(body) : IsDigit(body[i]) \/ body[i] = "."
                    /\ Count(body, ".") <= 1
                    /\ \E i \in 1..Len(body) : IsDigit(body[i])
      dot == DotAt(body, 1)
      frac == IF dot > Len(body) THEN 0 ELSE Len(body) - dot
  IN IF wellFormed
     THEN [ok |-> TRUE,
           val |-> RoundRat(signed /\ s[1] = "-", BOfDigits(SelectDigits(body)),
                            BPow10(frac), 0)]
     ELSE [ok |-> FALSE, val |-> F64Zero]

\* Mutant of unwrap_or: a failed parse counts as 1.0.
unwrap_or_one(r, default) == IF r.ok THEN r.val ELSE F64OfInt(1)

\* Result::unwrap_or(default)
unwrap_or(r, default) == IF r.ok THEN r.val ELSE default

(***************************************************************************)
(* f64::to_string(): the shortest decimal digits that read back as the     *)
(* same f64 (the closest to it among the shortest), written without an     *)
(* exponent (core::num::flt2dec, strategy::dragon::format_shortest).       *)
(***************************************************************************)
\* The scaled value r / s, the distances mm / s and mp / s to the lower and
\* the upper neighbour's midpoint, and whether the midpoints themselves read
\* back as x (flt2dec::decode, then the scaling by 2^exp).
Decoded(x) ==
  LET bl == BBitLen(x.m)
      pow2 == x.m = <<1>>
      mant == IF pow2 THEN BShl(<<1>>, 54) ELSE BShl(x.m, 54 - bl)
      minus == <<1>>
      plus == IF pow2 THEN <<2>> ELSE <<1>>
      exp == IF pow2 THEN x.e - 54 ELSE x.e - (54 - bl)
  IN [r |-> IF exp >= 0 THEN BShl(mant, exp) ELSE mant,
      mm |-> IF exp >= 0 THEN BShl(minus, exp) ELSE minus,
      mp |-> IF exp >= 0 THEN BShl(plus, exp) ELSE plus,
      s |-> IF exp >= 0 THEN <<1>> ELSE BShl(<<1>>, -exp),
      inclusive |-> bl < 53]

\* high = (r + mp) / s is below 1 (or equal to 1 and not read back as x)
BelowOne(d) ==
  IF d.inclusive THEN BLess(BAdd(d.r, d.mp), d.s) ELSE BLeq(BAdd(d.r, d.mp), d.s)

Times10(d) ==
  [d EXCEPT !.r = BMulSmall(d.r, 10), !.mm = BMulSmall(d.mm, 10),
            !.mp = BMulSmall(d.mp, 10)]

RECURSIVE ScaleDown(_, _)
\* d / 10^j and k + j, for the least j >= 0 that brings high below 1
ScaleDown(d, k) ==
  IF BelowOne(d) THEN [d |-> d, k |-> k]
  ELSE ScaleDown([d EXCEPT !.s = BMulSmall(d.s, 10)], k + 1)

RECURSIVE ScaleUp(_, _)
\* d * 10^j and k - j, for the greatest j >= 0 that keeps high below 1
ScaleUp(d, k) ==
  IF BelowOne(Times10(d)) THEN ScaleUp(Times10(d), k - 1) ELSE [d |-> d, k |-> k]

\* x = 0.d1 d2 ... * 10^k: the scaling that brings high just below 1
ScaledFrom(d) == IF BelowOne(d) THEN ScaleUp(d, 0) ELSE ScaleDown(d, 0)

Scaled(x) == ScaledFrom(Decoded(x))

RECURSIVE RoundUpDigits(_, _)
\* the digits ds[1..i] plus one in the last place; <<>> when all are 9
RoundUpDigits(ds, i) ==
  IF i = 0 THEN <<>>
  ELSE IF ds[i] < 9 THEN SubSeq(ds, 1, i - 1) \o <<ds[i] + 1>>
  ELSE LET up == RoundUpDigits(ds, i - 1)
       IN IF up = <<>> THEN <<>> ELSE up \o <<0>>

\* the digits so far read back as x: the rest rem / s is within mm / s
DigitsDown(t, rem) == IF t.inclusive THEN BLeq(rem, t.mm) ELSE BLess(rem, t.mm)

\* the digits so far plus one in the last place read back as x: rem / s is
\* within mp / s of 1
DigitsUp(t, rem) ==
  IF t.inclusive THEN BLeq(t.s, BAdd(rem, t.mp)) ELSE BLess(t.s, BAdd(rem, t.mp))

\* the digits g with digit before them
PushDigit(digit, g) == [ds |-> <<digit>> \o g.ds, up |-> g.up]

RECURSIVE Digits(_)
\* the end of one turn of the loop: stop at digit, or go on with the rest rem
DigitsEnd(t, digit, rem, down, up) ==
  IF ~down /\ ~up THEN PushDigit(digit, Digits([t EXCEPT !.r = rem]))
  ELSE [ds |-> <<digit>>,
        up |-> up /\ (~down \/ BLeq(t.s, BMulSmall(rem, 2)))]

DigitsRem(t, digit, rem) ==
  DigitsEnd(t, digit, rem, DigitsDown(t, rem), DigitsUp(t, rem))

\* the next digit is floor(t.r / t.s), for t.r < 10 * t.s
DigitsStep(t, digit) == DigitsRem(t, digit, BSub(t.r, BMulSmall(t.s, digit)))

DigitsOf(t) == DigitsStep(t, QDigit(t.r, t.s, 3, 0))

\* the digit generation loop: the digits of x = 0.d1 d2 ... * 10^k up to the
\* first place where the digits so far, or these plus one in the last place,
\* read back as x, and whether it is the latter that is closer to x
Digits(d) == DigitsOf(Times10(d))

\* the digits ds rounded up to rounded, or to 10^Len(ds) when all are 9
RoundedUp(ds, k, rounded) ==
  IF rounded = <<>> THEN [ds |-> <<1>> \o Zeros(Len(ds)), k |-> k + 1]
  ELSE [ds |-> rounded, k |-> k]

ShortestOf(g, k) ==
  IF ~g.up THEN [ds |-> g.ds, k |-> k]
  ELSE RoundedUp(g.ds, k, RoundUpDigits(g.ds, Len(g.ds)))

ShortestScaled(sc) == ShortestOf(Digits(sc.d), sc.k)

\* flt2dec::to_shortest_str's digits and decimal exponent of x # 0
Shortest(x) == ShortestScaled(Scaled(x))

DigitText(ds) == [i \in 1..Len(ds) |-> DigitChars[ds[i] + 1]]

ZeroText(n) == [i \in 1..n |-> "0"]

\* flt2dec::digits_to_dec_str with no minimum of fractional digits
digits_to_dec_str(ds, k) ==
  IF k <= 0 THEN <<"0", ".">> \o ZeroText(-k) \o DigitText(ds)
  ELSE IF k < Len(ds)
  THEN DigitText(SubSeq(ds, 1, k)) \o <<".">> \o DigitText(SubSeq(ds, k + 1, Len(ds)))
  ELSE DigitText(ds) \o ZeroText(k - Len(ds))

\* f64::to_string(), <f64 as Display>::fmt
DecStr(sh) == digits_to_dec_str(sh.ds, sh.k)

to_string(x) ==
  (IF x.neg THEN <<"-">> ELSE <<>>)
  \o (IF F64IsZero(x) THEN <<"0">> ELSE DecStr(Shortest(x)))

(***************************************************************************)
(* CalculatorState and its methods.  A state is a record of the struct's   *)
(* three fields; a method maps the state it is called on to the state it   *)
(* leaves.                                                                 *)
(***************************************************************************)
Operation == {"Add", "Subtract", "Multiply", "Divide", "None"}

\* CalculatorState::new()
new == [current_value |-> F64Zero, buffer |-> <<>>, current_op |-> "None"]

\* Mutant of clear: the pending operator is not reset.
clear_keeps_op(s) == [s EXCEPT !.current_value = F64Zero, !.buffer = <<>>]

\* CalculatorState::clear()
clear(s) ==
  [s EXCEPT !.current_value = F64Zero, !.buffer = <<>>, !.current_op = "None"]

\* Mutant of set_operation: the buffer is parsed even when it is empty.
set_operation_unguarded(s, op) ==
  [s EXCEPT !.current_value = unwrap_or(parse(s.buffer), F64Zero),
            !.buffer = <<>>,
            !.current_op = op]

\* Mutant of set_operation: the pending operator is applied to the
\* accumulator and the buffer before op replaces it.
set_operation_applies(s, op) ==
  IF s.buffer # <<>>
  THEN [current_value |->
          (CASE s.current_op = "Add" ->
                  F64Add(s.current_value, unwrap_or(parse(s.buffer), F64Zero))
             [] s.current_op = "Subtract" ->
                  F64Sub(s.current_value, unwrap_or(parse(s.buffer), F64Zero))
             [] s.current_op = "Multiply" ->
                  F64Mul(s.current_value, unwrap_or(parse(s.buffer), F64Zero))
             [] s.current_op = "Divide" ->
                  IF F64IsZero(unwrap_or(parse(s.buffer), F64Zero)) THEN F64Zero
                  ELSE F64Div(s.current_value, unwrap_or(parse(s.buffer), F64Zero))
             [] s.current_op = "None" -> unwrap_or(parse(s.buffer), F64Zero)),
        buffer |-> <<>>,
        current_op |-> op]
  ELSE [s EXCEPT !.current_op = op]

\* Mutant of set_operation: the buffer is parsed and kept.
set_operation_keeps_buffer(s, op) ==
  IF s.buffer # <<>>
  THEN [s EXCEPT !.current_value = unwrap_or(parse(s.buffer), F64Zero),
                 !.current_op = op]
  ELSE [s EXCEPT !.current_op = op]

\* Mutant of set_operation: the operator is not recorded.
set_operation_drops_op(s, op) ==
  IF s.buffer # <<>>
  THEN [s EXCEPT !.current_value = unwrap_or(parse(s.buffer), F64Zero),
                 !.buffer = <<>>]
  ELSE s

\* CalculatorState::set_operation(op)
set_operation(s, op) ==
  LET parsed == IF s.buffer # <<>>
                THEN [s EXCEPT !.current_value = unwrap_or(parse(s.buffer), F64Zero),
                               !.buffer = <<>>]
                ELSE s
  IN [parsed EXCEPT !.current_op = op]

\* Mutant of input_digit: a second "." is not entered.
input_digit_once(s, digit) ==
  IF digit = "." /\ Contains(s.buffer, ".") THEN s
  ELSE [s EXCEPT !.buffer = Append(s.buffer, digit)]

\* Mutant of input_digit: the character is put before the buffer.
input_digit_front(s, digit) == [s EXCEPT !.buffer = <<digit>> \o s.buffer]

\* CalculatorState::input_digit(digit)
input_digit(s, digit) == [s EXCEPT !.buffer = Append(s.buffer, digit)]

\* CalculatorState::calculate(): the state it leaves and the value it returns
\* Mutant of Matched: the operands of the subtraction and of the division
\* taken in the wrong order.
MatchedSwapped(op, value, new_val) ==
  CASE op = "Add" -> F64Add(value, new_val)
    [] op = "Subtract" -> F64Sub(new_val, value)
    [] op = "Multiply" -> F64Mul(value, new_val)
    [] op = "Divide" ->
         IF F64Less(F64Abs(new_val), EPSILON) \/ F64IsZero(value) THEN F64Zero
         ELSE F64Div(new_val, value)
    [] op = "None" -> new_val

\* Mutant of Matched: a division by a near-zero operand leaves the
\* accumulator as it is.
MatchedKeepsOnZero(op, value, new_val) ==
  CASE op = "Add" -> F64Add(value, new_val)
    [] op = "Subtract" -> F64Sub(value, new_val)
    [] op = "Multiply" -> F64Mul(value, new_val)
    [] op = "Divide" ->
         IF F64Less(F64Abs(new_val), EPSILON) THEN value
         ELSE F64Div(value, new_val)
    [] op = "None" -> new_val

\* calculate()'s match on current_op
Matched(op, value, new_val) ==
  CASE op = "Add" -> F64Add(value, new_val)
    [] op = "Subtract" -> F64Sub(value, new_val)
    [] op = "Multiply" -> F64Mul(value, new_val)
    [] op = "Divide" ->
         IF F64Less(F64Abs(new_val), EPSILON) THEN F64Zero
         ELSE F64Div(value, new_val)
    [] op = "None" -> new_val

\* calculate()'s last two statements, current_value being value by then
Calculated(value) ==
  [state |-> [current_value |-> value, buffer |-> <<>>, current_op |-> "None"],
   ret |-> value]

\* Mutant of calculate: with the buffer empty the operand is the accumulator.
calculate_on_value(s) ==
  Calculated(Matched(s.current_op, s.current_value,
                     IF s.buffer = <<>> THEN s.current_value
                     ELSE unwrap_or(parse(s.buffer), F64Zero)))

calculate(s) ==
  Calculated(Matched(s.current_op, s.current_value,
                     IF s.buffer = <<>> THEN F64Zero
                     ELSE unwrap_or(parse(s.buffer), F64Zero)))

\* Mutant of toggle_sign: the accumulator is negated whatever the buffer
\* holds.
toggle_sign_value(s) == [s EXCEPT !.current_value = F64Neg(s.current_value)]

\* CalculatorState::toggle_sign()
\* if let Ok(val) = r { buffer = (-val).to_string() }
SignToggled(s, r) ==
  IF r.ok THEN [s EXCEPT !.buffer = to_string(F64Neg(r.val))] ELSE s

\* Mutant of toggle_sign: the number is made negative, not negated.
toggle_sign_negative(s) ==
  IF s.buffer # <<>>
  THEN (IF parse(s.buffer).ok
        THEN [s EXCEPT !.buffer =
                to_string(F64Neg(F64Abs(parse(s.buffer).val)))]
        ELSE s)
  ELSE [s EXCEPT !.current_value = F64Neg(F64Abs(s.current_value))]

toggle_sign(s) ==
  IF s.buffer # <<>> THEN SignToggled(s, parse(s.buffer))
  ELSE [s EXCEPT !.current_value = F64Neg(s.current_value)]

\* Mutant of percent: the buffer's hundredth is stored in the accumulator.
percent_to_value(s) ==
  IF s.buffer # <<>> /\ parse(s.buffer).ok
  THEN [s EXCEPT !.current_value = F64Div(parse(s.buffer).val, F64OfInt(100))]
  ELSE [s EXCEPT !.current_value = F64Div(s.current_value, F64OfInt(100))]

\* CalculatorState::percent()
\* if let Ok(val) = r { buffer = (val / 100.0).to_string() }
PercentTaken(s, r) ==
  IF r.ok THEN [s EXCEPT !.buffer = to_string(F64Div(r.val, F64OfInt(100)))] ELSE s

percent(s) ==
  IF s.buffer # <<>> THEN PercentTaken(s, parse(s.buffer))
  ELSE [s EXCEPT !.current_value = F64Div(s.current_value, F64OfInt(100))]

(***************************************************************************)
(* The program: one CalculatorState shared by the button handlers of       *)
(* main(), and the display entry they write.                               *)
(***************************************************************************)
VARIABLES
  current_value,  \* CalculatorState.current_value
  buffer,         \* CalculatorState.buffer
  current_op,     \* CalculatorState.current_op
  display,        \* the text of the display Entry
  log,            \* history: the method calls since the state was made,
                  \* given or last cleared
  last,           \* history: the last event's method call
  pre,            \* history: the CalculatorState before the last event
  borrowed,       \* the RefCell's borrow flag: a RefMut of the state is alive
  panicked        \* a handler has panicked: the program has ended

vars ==
  <<current_value, buffer, current_op, display, log, last, pre, borrowed,
    panicked>>

State == [current_value |-> current_value, buffer |-> buffer, current_op |-> current_op]

Becomes(s) ==
  /\ current_value' = s.current_value
  /\ buffer' = s.buffer
  /\ current_op' = s.current_op

\* A call of a method: its name, its argument ("" when it has none) and the
\* value it returned (Void when it returns none).  "none" is an event that
\* called no method.
Void == "void"
Call(name, arg) == [name |-> name, arg |-> arg, ret |-> Void]
Returned(name, ret) == [name |-> name, arg |-> "", ret |-> ret]

\* the number of events since the state was made, given or last cleared
Steps == Len(log)

Logged(call) ==
  /\ log' = Append(log, call)
  /\ last' = call
  /\ pre' = State

\* clear() starts the log anew
Cleared ==
  /\ log' = <<>>
  /\ last' = Call("clear", "")
  /\ pre' = State

\* main() up to window.show_all(): the state is new() and the display "0"
Init ==
  /\ current_value = new.current_value
  /\ buffer = new.buffer
  /\ current_op = new.current_op
  /\ display = <<"0">>
  /\ log = <<>>
  /\ last = Call("new", "")
  /\ pre = new
  /\ borrowed = FALSE
  /\ panicked = FALSE

\* the handler leaves the state s and sets the display's text
Displays(s, text) == Becomes(s) /\ display' = text

\* what the "+/-" and "%" handlers show: the buffer if it is not empty, else
\* the accumulator
Shown(s) == IF s.buffer # <<>> THEN s.buffer ELSE to_string(s.current_value)

\* Mutant of ShowsEither: the accumulator is shown whatever the buffer holds.
ShowsEitherValue(s) == Displays(s, to_string(s.current_value))

ShowsEither(s) == Displays(s, Shown(s))

ShowsValue(s) == Displays(s, to_string(s.current_value))

ShowsBuffer(s) == Displays(s, s.buffer)

\* the "=" handler shows the value calculate() returned
ShowsResult(r) ==
  /\ Displays(r.state, to_string(r.ret))
  /\ Logged(Returned("calculate", r.ret))

\* A panic: RefCell::borrow_mut() on a state that is borrowed, or
\* Option::unwrap() on None.  It ends the program with the state as it was.
Panics ==
  /\ panicked' = TRUE
  /\ UNCHANGED <<current_value, buffer, current_op, display, borrowed>>
  /\ Logged(Call("panic", ""))

\* the end of a handler's closure: the RefMut it borrowed is dropped
Dropped == borrowed' = FALSE /\ panicked' = FALSE

\* a clicked handler of the running program: calc_state_clone.borrow_mut(),
\* then the body
Clicked(body) == ~panicked /\ (IF borrowed THEN Panics ELSE body)

\* ac_button.connect_clicked
ACButton ==
  Clicked(/\ Displays(clear(State), <<"0">>)
          /\ Cleared
          /\ Dropped)

\* plus_minus_button.connect_clicked
PlusMinusButton ==
  Clicked(/\ ShowsEither(toggle_sign(State))
          /\ Logged(Call("toggle_sign", ""))
          /\ Dropped)

\* percent_button.connect_clicked
PercentButton ==
  Clicked(/\ ShowsEither(percent(State))
          /\ Logged(Call("percent", ""))
          /\ Dropped)

\* divide_button, multiply_button, subtract_button and add_button
\* .connect_clicked
OperatorButton(op) ==
  Clicked(/\ ShowsValue(set_operation(State, op))
          /\ Logged(Call("set_operation", op))
          /\ Dropped)

\* Option<char>
None == [some |-> FALSE, val |-> ""]

Some(c) == [some |-> TRUE, val |-> c]

\* let d = digit.to_string(): the text of a digit button's label
Label(digit) == <<digit>>

\* Mutant of chars_next: the character after the first is taken.
chars_second(d) == IF Len(d) < 2 THEN None ELSE Some(d[2])

\* d.chars().next()
chars_next(d) == IF d = <<>> THEN None ELSE Some(Head(d))

\* state.input_digit(c.unwrap()) and display.set_text(&state.buffer)
Unwrapped(c) ==
  IF c.some
  THEN /\ ShowsBuffer(input_digit(State, c.val))
       /\ Logged(Call("input_digit", c.val))
       /\ Dropped
  ELSE Panics

\* the connect_clicked of the digit buttons "1" to "9"
DigitButton(digit) == Clicked(Unwrapped(chars_next(Label(digit))))

\* zero_button.connect_clicked
ZeroButton ==
  Clicked(/\ ShowsBuffer(input_digit(State, "0"))
          /\ Logged(Call("input_digit", "0"))
          /\ Dropped)

\* Mutant of DecimalButton: the "." is entered whatever the buffer holds.
DecimalButtonUnguarded ==
  Clicked(/\ ShowsBuffer(input_digit(State, "."))
          /\ Logged(Call("input_digit", "."))
          /\ Dropped)

\* decimal_button.connect_clicked
DecimalButton ==
  Clicked(IF ~Contains(buffer, ".")
          THEN /\ ShowsBuffer(input_digit(State, "."))
               /\ Logged(Call("input_digit", "."))
               /\ Dropped
          ELSE /\ ShowsBuffer(State)
               /\ Logged(Call("none", ""))
               /\ Dropped)

\* Mutant of EqualsButton: the display is not written.
EqualsButtonSilent ==
  Clicked(/\ Becomes(calculate(State).state)
          /\ UNCHANGED display
          /\ Logged(Returned("calculate", calculate(State).ret))
          /\ Dropped)

\* equals_button.connect_clicked
EqualsButton == Clicked(ShowsResult(calculate(State)) /\ Dropped)

\* The operator buttons: "/", "x", "-" and "+".
OpKeys == {"Divide", "Multiply", "Subtract", "Add"}

(***************************************************************************)
(* Spec: the window, any button pressed at any time.                       *)
(***************************************************************************)
\* The digit buttons "1" to "9" the model presses (main() has all nine); it
\* presses "0" too.
DigitKeys == {"1", "2", "8"}

\* The number of button presses the model follows after the state was made or
\* last cleared.
MaxSteps == 4

Next ==
  \/ ACButton
  \/ Steps < MaxSteps /\ PlusMinusButton
  \/ Steps < MaxSteps /\ PercentButton
  \/ Steps < MaxSteps /\ \E op \in OpKeys : OperatorButton(op)
  \/ Steps < MaxSteps /\ \E d \in DigitKeys : DigitButton(d)
  \/ Steps < MaxSteps /\ ZeroButton
  \/ Steps < MaxSteps /\ DecimalButton
  \/ Steps < MaxSteps /\ EqualsButton

Spec == Init /\ [][Next]_vars

(***************************************************************************)
(* SeqSpec: the window, the user keying in calculations: numbers of one or *)
(* more digits, an operator or "=" after a number.                         *)
(***************************************************************************)
SeqDigitKeys == {"1", "2", "8"}

\* The number of button presses the model follows.
MaxSeq == 6

SeqNext ==
  \/ Steps < MaxSeq /\ \E d \in SeqDigitKeys : DigitButton(d)
  \/ Steps < MaxSeq /\ ZeroButton
  \/ Steps < MaxSeq /\ buffer # <<>> /\ \E op \in OpKeys : OperatorButton(op)
  \/ Steps < MaxSeq /\ buffer # <<>> /\ EqualsButton

SeqSpec == Init /\ [][SeqNext]_vars

(***************************************************************************)
(* MethodSpec: CalculatorState's methods called one by one on a state the  *)
(* program can be in.  The display is left alone: it is the handlers that  *)
(* write it.                                                               *)
(***************************************************************************)
\* Accumulators the user can key in (a number, then an operator).
GivenValues ==
  {<<"0">>, <<"3">>, <<"6">>, <<"1", "0">>, <<"2", "0", "0">>, <<"0", ".", "1">>}

\* Buffers the user can key in.  The last is 10^-16, below f64::EPSILON.
GivenBuffers ==
  {<<>>, <<"0">>, <<"5">>, <<"7">>, <<"5", "0">>, <<"0", ".", "2">>,
   <<"0", ".">> \o ZeroText(15) \o <<"1">>}

\* The characters of the input_digit calls the model makes.
CallDigits == {"0", "5", "."}

\* The number of method calls the model follows after the state was given or
\* last cleared.
MaxCalls == 2

MethodInit ==
  /\ current_value \in {parse(t).val : t \in GivenValues}
  /\ buffer \in GivenBuffers
  /\ current_op \in Operation
  /\ display = Shown(State)
  /\ log = <<>>
  /\ last = Call("none", "")
  /\ pre = State
  /\ borrowed = FALSE
  /\ panicked = FALSE

\* a method leaves the state s; it does not write the display
Leaves(s) == Becomes(s) /\ UNCHANGED <<display, borrowed, panicked>>

ClearCall == Leaves(clear(State)) /\ Cleared

SetOperationCall(op) ==
  Leaves(set_operation(State, op)) /\ Logged(Call("set_operation", op))

InputDigitCall(d) ==
  Leaves(input_digit(State, d)) /\ Logged(Call("input_digit", d))

\* the value calculate() returned, and the state it left
Returns(r) == Leaves(r.state) /\ Logged(Returned("calculate", r.ret))

CalculateCall == Returns(calculate(State))

ToggleSignCall == Leaves(toggle_sign(State)) /\ Logged(Call("toggle_sign", ""))

PercentCall == Leaves(percent(State)) /\ Logged(Call("percent", ""))

MethodNext ==
  \/ ClearCall
  \/ Steps < MaxCalls /\ \E op \in OpKeys : SetOperationCall(op)
  \/ Steps < MaxCalls /\ \E d \in CallDigits : InputDigitCall(d)
  \/ Steps < MaxCalls /\ CalculateCall
  \/ Steps < MaxCalls /\ ToggleSignCall
  \/ Steps < MaxCalls /\ PercentCall

MethodSpec == MethodInit /\ [][MethodNext]_vars

(***************************************************************************)
(* The claims.  last is the call the last event made, pre the state it was *)
(* made in, State the state it left.                                       *)
(***************************************************************************)
\* the operand of a calculate(), toggle_sign() or percent() call made on a
\* parsable buffer
Parsable == pre.buffer # <<>> /\ parse(pre.buffer).ok

Operand == parse(pre.buffer).val

\* what calculate() leaves: the accumulator is the value it returned, the
\* buffer is empty and no operator is pending
CalculateLeaves ==
  /\ current_value = last.ret
  /\ buffer = <<>>
  /\ current_op = "None"

\* the table of section 4.1 for the accumulator a and the operand b, the
\* quotient being a / b
Quotient(op, a, b) ==
  CASE op = "Add" -> F64Add(a, b)
    [] op = "Subtract" -> F64Sub(a, b)
    [] op = "Multiply" -> F64Mul(a, b)
    [] op = "Divide" -> F64Div(a, b)
    [] op = "None" -> b

\* C1 as claimed: calculate() on a parsable buffer of value b, b # 0 when the
\* pending operator is Divide, returns a + b, a - b, a * b, a / b or b, and
\* leaves the accumulator equal to the returned value, the buffer empty and
\* no operator pending.
C1_AsClaimed ==
  last.name = "calculate" /\ Parsable
    /\ ~(pre.current_op = "Divide" /\ F64IsZero(Operand))
  => /\ last.ret = Quotient(pre.current_op, pre.current_value, Operand)
     /\ CalculateLeaves

\* C1, amended: calculate() on a parsable buffer of value b, |b| >=
\* f64::EPSILON when the pending operator is Divide, returns a + b, a - b,
\* a * b, a / b or b, and leaves the accumulator equal to the returned value,
\* the buffer empty and no operator pending.
C1_Calculate ==
  last.name = "calculate" /\ Parsable
    /\ ~(pre.current_op = "Divide" /\ F64Less(F64Abs(Operand), EPSILON))
  => /\ last.ret = Quotient(pre.current_op, pre.current_value, Operand)
     /\ CalculateLeaves

\* accumulator 6, Multiply pending, buffer "7": calculate() returned 42
C1_Witness ==
  /\ last.name = "calculate"
  /\ pre = [current_value |-> F64OfInt(6), buffer |-> <<"7">>, current_op |-> "Multiply"]
  /\ last.ret = F64OfInt(42)
  /\ State = [current_value |-> F64OfInt(42), buffer |-> <<>>, current_op |-> "None"]

\* C3: calculate() with Divide pending and a zero operand (the buffer "0", or
\* empty) returns 0.0 whatever the accumulator, stores 0.0 in the accumulator
\* and leaves no operator pending.
C3_DivideByZero ==
  last.name = "calculate" /\ pre.current_op = "Divide" /\ pre.buffer \in {<<>>, <<"0">>}
  => /\ last.ret = F64Zero
     /\ current_value = F64Zero
     /\ current_op = "None"

\* accumulator 10, Divide pending, buffer "0": calculate() returned 0.0
C3_Witness ==
  /\ last.name = "calculate"
  /\ pre = [current_value |-> F64OfInt(10), buffer |-> <<"0">>, current_op |-> "Divide"]
  /\ last.ret = F64Zero
  /\ current_value = F64Zero

\* C8: toggle_sign() on a parsable buffer replaces the buffer by the text of
\* the negated value and leaves the accumulator ("5" becomes "-5"); on an
\* empty buffer it negates the accumulator and leaves the buffer empty (3
\* becomes -3).  The pending operator stays in both cases.
C8_ToggleSign ==
  last.name = "toggle_sign"
  => /\ Parsable => /\ buffer = to_string(F64Neg(Operand))
                    /\ current_value = pre.current_value
                    /\ current_op = pre.current_op
     /\ pre.buffer = <<"5">> => buffer = <<"-", "5">>
     /\ pre.buffer = <<>> => /\ current_value = F64Neg(pre.current_value)
                             /\ buffer = <<>>
                             /\ current_op = pre.current_op
     /\ pre.buffer = <<>> /\ pre.current_value = F64OfInt(3)
        => current_value = F64OfInt(-3)

\* toggle_sign() made the buffer "5" "-5", with the accumulator 3 left alone
C8_Witness ==
  /\ last.name = "toggle_sign"
  /\ pre.buffer = <<"5">>
  /\ pre.current_value = F64OfInt(3)
  /\ buffer = <<"-", "5">>
  /\ current_value = F64OfInt(3)

\* C9: percent() on a parsable buffer replaces the buffer by the text of the
\* value divided by 100 and leaves the accumulator ("50" becomes "0.5"); on
\* an empty buffer it divides the accumulator by 100 and leaves the buffer
\* empty (200 becomes 2).  The pending operator stays in both cases.
C9_Percent ==
  last.name = "percent"
  => /\ Parsable => /\ buffer = to_string(F64Div(Operand, F64OfInt(100)))
                    /\ current_value = pre.current_value
                    /\ current_op = pre.current_op
     /\ pre.buffer = <<"5", "0">> => buffer = <<"0", ".", "5">>
     /\ pre.buffer = <<>> => /\ current_value = F64Div(pre.current_value, F64OfInt(100))
                             /\ buffer = <<>>
                             /\ current_op = pre.current_op
     /\ pre.buffer = <<>> /\ pre.current_value = F64OfInt(200)
        => current_value = F64OfInt(2)

\* percent() made the accumulator 200 2, with Add pending
C9_Witness ==
  /\ last.name = "percent"
  /\ pre = [current_value |-> F64OfInt(200), buffer |-> <<>>, current_op |-> "Add"]
  /\ State = [current_value |-> F64OfInt(2), buffer |-> <<>>, current_op |-> "Add"]

\* C2: clear() called in any state the window can reach leaves the initial
\* state: the accumulator 0, the buffer empty, no operator pending.
C2_Clear ==
  last.name = "clear"
  => /\ State = [current_value |-> F64Zero, buffer |-> <<>>, current_op |-> "None"]
     /\ State = new

\* clear() was called with a non-zero accumulator, a non-empty buffer and an
\* operator pending
C2_Witness ==
  /\ last.name = "clear"
  /\ ~F64IsZero(pre.current_value)
  /\ pre.buffer # <<>>
  /\ pre.current_op # "None"
  /\ State = new

\* the characters the calls log[i], ..., log[j] entered
Typed(i, j) == [k \in 1..(j - i + 1) |-> log[i + k - 1].arg]

\* log[i], ..., log[j] are one or more input_digit calls
IsNumber(i, j) == i <= j /\ \A k \in i..j : log[k].name = "input_digit"

RECURSIVE IntOfDigits(_)
\* the integer the digits ds spell, 0 for none
IntOfDigits(ds) ==
  IF ds = <<>> THEN 0
  ELSE 10 * IntOfDigits(SubSeq(ds, 1, Len(ds) - 1)) + DigitVal(ds[Len(ds)])

\* the number of characters of t after its "."
FractionLen(t) ==
  IF Contains(t, ".") THEN Len(t) - (CHOOSE i \in 1..Len(t) : t[i] = ".") ELSE 0

\* the f64 nearest to the decimal numeral t: digits with at most one "."
NumericValue(t) ==
  F64Div(F64OfInt(IntOfDigits(SelectDigits(t))), F64OfInt(10^FractionLen(t)))

\* C4: from the initial or the cleared state, one or more digit entries and
\* then calculate(), nothing else in between: calculate() returns the numeric
\* value of the characters typed, and leaves the buffer empty.
C4_DigitsThenCalculate ==
  last.name = "calculate" /\ IsNumber(1, Len(log) - 1)
  => /\ last.ret = NumericValue(Typed(1, Len(log) - 1))
     /\ buffer = <<>>

\* "1", "2", "8" were typed and calculate() returned 128
C4_Witness ==
  /\ last.name = "calculate"
  /\ Len(log) = 4
  /\ IsNumber(1, 3)
  /\ Typed(1, 3) = <<"1", "2", "8">>
  /\ last.ret = F64OfInt(128)
  /\ buffer = <<>>

\* C5: set_operation(op) called with an empty buffer leaves the accumulator
\* and the buffer and makes op the pending operator; a second set_operation
\* right after a first leaves the accumulator where the first left it (where
\* it was before the first, if that was called with an empty buffer too) and
\* only the second operator pending.
C5_SetOperationEmpty ==
  [][last'.name = "set_operation" /\ buffer = <<>>
     => /\ current_value' = current_value
        /\ buffer' = <<>>
        /\ current_op' = last'.arg
        /\ (last.name = "set_operation" /\ pre.buffer = <<>>
            => current_value' = pre.current_value)]_vars

\* set_operation was called twice in a row, with two operators, on the
\* accumulator 1
C5_Witness ==
  /\ Len(log) >= 2
  /\ last.name = "set_operation"
  /\ log[Len(log) - 1].name = "set_operation"
  /\ log[Len(log) - 1].arg # last.arg
  /\ pre.buffer = <<>>
  /\ pre.current_value = F64OfInt(1)
  /\ current_value = F64OfInt(1)
  /\ current_op = last.arg

\* the table of section 4.1 for the accumulator a and the operand b
Table(op, a, b) ==
  IF op = "Divide" /\ F64Less(F64Abs(b), EPSILON) THEN F64Zero
  ELSE Quotient(op, a, b)

\* C6: set_operation never applies the pending operator.  After the numeral
\* a, the operator op1, the numeral b and the operator op2, the accumulator
\* is b and op2 is pending, where a and op1 were; and after the numeral c and
\* calculate() then, calculate() has returned b op2 c.
C6_NoChaining ==
  \A i, j \in 1..Len(log) :
    /\ log[i].name = "set_operation" /\ log[j].name = "set_operation"
    /\ IsNumber(1, i - 1) /\ IsNumber(i + 1, j - 1)
    => /\ j = Len(log)
          => /\ pre.current_value = NumericValue(Typed(1, i - 1))
             /\ pre.current_op = log[i].arg
             /\ current_value = NumericValue(Typed(i + 1, j - 1))
             /\ current_op = log[j].arg
       /\ last.name = "calculate" /\ IsNumber(j + 1, Len(log) - 1)
          => last.ret = Table(log[j].arg, NumericValue(Typed(i + 1, j - 1)),
                              NumericValue(Typed(j + 1, Len(log) - 1)))

\* 1, +, 2, x, 8, =: calculate() returned 16, not 24
C6_Witness ==
  /\ Len(log) = 6
  /\ Typed(1, 5) = <<"1", "Add", "2", "Multiply", "8">>
  /\ last.name = "calculate"
  /\ last.ret = F64OfInt(16)

RECURSIVE NatText(_)
\* the decimal numeral of the natural number n
NatText(n) ==
  IF n < 10 THEN <<DigitChars[n + 1]>>
  ELSE NatText(n \div 10) \o <<DigitChars[(n % 10) + 1]>>

\* the decimal numeral of the integer n
IntText(n) == IF n < 0 THEN <<"-">> \o NatText(-n) ELSE NatText(n)

\* a op b is an integer
Integral(op, a, b) == op = "Divide" => b # 0 /\ a % b = 0

\* the integer a op b
IntResult(op, a, b) ==
  CASE op = "Add" -> a + b
    [] op = "Subtract" -> a - b
    [] op = "Multiply" -> a * b
    [] op = "Divide" -> a \div b

\* the display after the numeral of a, the operator op, the numeral of b and
\* "=": the text of a op b, an integer shown without a fractional part, and
\* "0" for a division by 0
DisplaysResult(op, a, b) ==
  /\ display = to_string(Table(op, F64OfInt(a), F64OfInt(b)))
  /\ Integral(op, a, b) => display = IntText(IntResult(op, a, b))
  /\ op = "Divide" /\ b = 0 => display = <<"0">>

\* C7: from the initial state, the digits of a, an operator op, the digits
\* of b and "=" leave the display showing the decimal numeral of a op b, an
\* integral result without a fractional part.
C7_EndToEnd ==
  \A i \in 1..Len(log) :
    /\ last.name = "calculate"
    /\ log[i].name = "set_operation"
    /\ IsNumber(1, i - 1) /\ IsNumber(i + 1, Len(log) - 1)
    => DisplaysResult(log[i].arg, IntOfDigits(Typed(1, i - 1)),
                      IntOfDigits(Typed(i + 1, Len(log) - 1)))

\* 1, 2, +, 8, = shows "20"
C7_Witness ==
  /\ Len(log) = 5
  /\ Typed(1, 4) = <<"1", "2", "Add", "8">>
  /\ last.name = "calculate"
  /\ display = <<"2", "0">>

\* C10: in every state the window can reach, the buffer holds at most one
\* ".".
C10_OneDecimalPoint == Count(buffer, ".") <= 1

\* the "." button was pressed on a buffer whose "." percent() had written,
\* and entered nothing
C10_Witness ==
  /\ last.name = "none"
  /\ Len(log) >= 2
  /\ log[Len(log) - 1].name = "percent"
  /\ \A k \in 1..(Len(log) - 2) : log[k].arg # "."
  /\ Count(buffer, ".") = 1

\* C11: the buffer is emptied exactly by set_operation, clear and calculate:
\* after each of the three the buffer is empty, and input_digit, toggle_sign
\* and percent called on a non-empty buffer leave a non-empty buffer.
C11_BufferEmptied ==
  /\ last.name \in {"set_operation", "clear", "calculate"} => buffer = <<>>
  /\ last.name \in {"input_digit", "toggle_sign", "percent"} /\ pre.buffer # <<>>
     => buffer # <<>>

\* a digit typed, its sign toggled, and an operator emptying the buffer
C11_Witness ==
  /\ Len(log) = 3
  /\ log[1].name = "input_digit"
  /\ log[2].name = "toggle_sign"
  /\ last.name = "set_operation"
  /\ pre.buffer # <<>>
  /\ buffer = <<>>

\* C12 as claimed: where no operator is pending, either set_operation has not
\* been called since the state was made or last cleared, or the last call was
\* calculate().
C12_AsClaimed ==
  current_op = "None"
  => \/ \A k \in 1..Len(log) : log[k].name # "set_operation"
     \/ last.name = "calculate"

\* C12: where no operator is pending, every set_operation call made since the
\* state was made or last cleared has been followed by a calculate() call:
\* none is pending from construction, from clear() and from calculate()
\* until the next set_operation.
C12_PendingNone ==
  current_op = "None"
  => \A k \in 1..Len(log) :
       log[k].name = "set_operation"
       => \E j \in (k + 1)..Len(log) : log[j].name = "calculate"

\* an operator was set and calculate() called, and a digit typed since: no
\* operator is pending
C12_Witness ==
  /\ current_op = "None"
  /\ \E k \in 1..Len(log) : log[k].name = "set_operation"
  /\ last.name = "input_digit"

C14_DisplayFollows ==
  display = IF buffer # <<>> THEN buffer ELSE to_string(current_value)

\* 8 entered as the accumulator and its sign toggled with the buffer empty:
\* the display shows "-8"
C14_Witness ==
  /\ last.name = "toggle_sign"
  /\ buffer = <<>>
  /\ current_value = F64Neg(F64OfInt(8))
  /\ display = <<"-", "8">>

\* the last call was made on a buffer that is not empty and does not parse
Unparsable == pre.buffer # <<>> /\ ~parse(pre.buffer).ok

\* C15: on a non-empty buffer that does not parse, toggle_sign() and
\* percent() change nothing, set_operation(op) leaves the accumulator 0.0,
\* the buffer empty and op pending, and calculate() computes with the
\* operand 0.0.
C15_UnparsableBuffer ==
  Unparsable
  => /\ last.name \in {"toggle_sign", "percent"} => State = pre
     /\ last.name = "set_operation"
        => State = [current_value |-> F64Zero, buffer |-> <<>>,
                    current_op |-> last.arg]
     /\ last.name = "calculate"
        => /\ last.ret = Table(pre.current_op, pre.current_value, F64Zero)
           /\ CalculateLeaves

\* 3 - "." is 3
C15_Witness ==
  /\ last.name = "calculate"
  /\ pre.buffer = <<".">>
  /\ pre.current_op = "Subtract"
  /\ pre.current_value = F64OfInt(3)
  /\ last.ret = F64OfInt(3)

\* C16: input_digit(c) leaves the buffer with c appended at its end, whatever
\* c and the state, a "." after a "." included, and leaves the accumulator
\* and the pending operator as they were.
C16_InputDigit ==
  last.name = "input_digit"
  => /\ buffer = pre.buffer \o <<last.arg>>
     /\ current_value = pre.current_value
     /\ current_op = pre.current_op

\* a second "." appended to a buffer with a pending operator and an
\* accumulator that is not 0
C16_Witness ==
  /\ last.name = "input_digit" /\ last.arg = "."
  /\ Contains(pre.buffer, ".")
  /\ buffer = pre.buffer \o <<".">>
  /\ current_op # "None"
  /\ ~F64IsZero(current_value)

\* C17 as claimed: calculate() called with the buffer empty returns 0 and
\* leaves the accumulator 0 with no operator pending, so that a calculate()
\* that follows a calculate() returns 0; it returns the accumulator unchanged
\* with Add or Subtract pending; it returns 0 with Multiply or Divide
\* pending.  A returned 0 is read as either zero, 0.0 or -0.0.
C17_AsClaimed ==
  /\ last.name = "calculate" /\ pre.buffer = <<>>
     => /\ pre.current_op = "None"
           => F64IsZero(last.ret) /\ F64IsZero(current_value)
        /\ pre.current_op \in {"Add", "Subtract"}
           => last.ret = pre.current_value
        /\ pre.current_op \in {"Multiply", "Divide"} => F64IsZero(last.ret)
  /\ last.name = "calculate" /\ Len(log) >= 2
       /\ log[Len(log) - 1].name = "calculate"
     => F64IsZero(last.ret) /\ F64IsZero(current_value)

\* the zero of the sign of x: 0.0, or -0.0 if x is negative or -0.0
ZeroOfSign(x) == [neg |-> x.neg, m |-> <<>>, e |-> 0]

\* C17: calculate() called with the buffer empty computes with the operand
\* 0.0.  With no operator pending it returns 0.0 and leaves the accumulator
\* 0.0, so that a calculate() that follows a calculate() returns 0.0; with
\* Divide pending it returns 0.0.  For a finite accumulator a: with Subtract
\* pending it returns a; with Add pending it returns a, but 0.0 when a is
\* -0.0; with Multiply pending it returns the zero of a's sign, 0.0 or -0.0.
C17_EmptyBuffer ==
  /\ last.name = "calculate" /\ pre.buffer = <<>>
     => /\ pre.current_op \in {"None", "Divide"} => last.ret = F64Zero
        /\ pre.current_op = "Subtract" => last.ret = pre.current_value
        /\ pre.current_op = "Add"
           => last.ret = IF F64IsZero(pre.current_value) THEN F64Zero
                         ELSE pre.current_value
        /\ pre.current_op = "Multiply"
           => last.ret = ZeroOfSign(pre.current_value)
        /\ CalculateLeaves
  /\ last.name = "calculate" /\ Len(log) >= 2
       /\ log[Len(log) - 1].name = "calculate"
     => last.ret = F64Zero /\ current_value = F64Zero

\* calculate() returned a number that is not 0, and the calculate() that
\* followed returned 0
C17_Witness ==
  /\ Len(log) = 2
  /\ log[1].name = "calculate"
  /\ ~F64IsZero(log[1].ret)
  /\ last.name = "calculate"
  /\ last.ret = F64Zero
  /\ current_value = F64Zero

\* t has the numbers of s: the same accumulator and pending operator, and a
\* buffer that is empty if that of s is, and parses to the same f64 if not
Restores(s, t) ==
  /\ t.current_value = s.current_value
  /\ t.current_op = s.current_op
  /\ IF s.buffer = <<>> THEN t.buffer = <<>>
     ELSE /\ t.buffer # <<>>
          /\ parse(t.buffer).ok
          /\ parse(t.buffer).val = parse(s.buffer).val

\* C18: toggle_sign() called twice on a state whose buffer is empty or parses
\* restores the number in the buffer (the accumulator if the buffer is empty)
\* and leaves the other fields; the text of the buffer may differ.  The
\* state is the one a first toggle_sign() left, pre the one it was called on.
C18_ToggleSignTwice ==
  last.name = "toggle_sign" /\ (pre.buffer = <<>> \/ parse(pre.buffer).ok)
  => Restores(pre, toggle_sign(State))

\* "5." toggled to "-5", and toggled again to "5"
C18_Witness ==
  /\ last.name = "toggle_sign"
  /\ pre.buffer = <<"5", ".">>
  /\ buffer = <<"-", "5">>
  /\ toggle_sign(State).buffer = <<"5">>

====
